---- MODULE Spec2Model ----
(***************************************************************************)
(* A model of the forum backend in src/app.py: the store connector         *)
(* (get_db_connection), the schema initializer (init_db), the five request *)
(* handlers (register, get_users, create_post, get_posts, get_post) and    *)
(* the +8h rendering of created_at.                                        *)
(*                                                                         *)
(* Two stores exist side by side: the PostgreSQL server named by           *)
(* DATABASE_URL ("primary") and the local SQLite file database.db          *)
(* ("embedded").  Every call asks get_db_connection for a connection; the  *)
(* SQL text of a statement is chosen from os.environ.get('DATABASE_URL'),  *)
(* not from the connection that was returned.                              *)
(***************************************************************************)
EXTENDS Integers, Sequences, FiniteSets, TLC

VARIABLES
    database_url,        \* os.environ.get('DATABASE_URL'), fixed for a behaviour
    POSTGRES_AVAILABLE,  \* whether `import psycopg2` succeeded
    db,                  \* db[s]: the committed contents of store s
    running,             \* whether a process is up (init_db has run in it)
    starts,              \* number of process starts (runs of init_db) so far
    openConns,           \* connections opened by this process and never closed
    now,                 \* index into Clock: the stores' CURRENT_TIMESTAMP
    resp,                \* the last call and its response
    registered,          \* names for which register has answered 201
    created,             \* [store, id, author_id] of posts create_post answered 201 for
    pc,                  \* pc[p]: position of concurrent register call p
    call,                \* call[p]: the locals of concurrent register call p
    writer,              \* holder of database.db's write lock (0: free)
    sample               \* what a pre-existing post's created_at was written from

vars == <<database_url, POSTGRES_AVAILABLE, db, running, starts, openConns, now,
          resp, registered, created, pc, call, writer, sample>>

config == <<database_url, POSTGRES_AVAILABLE>>

inflight == <<pc, call, writer>>

----------------------------------------------------------------------------
(* Bounds of the model. *)

MaxUsers == 2
MaxPosts == 2
MaxStarts == 2
MaxOpen == 1
MaxSerial == 3

----------------------------------------------------------------------------
(* Text: a Python str is a sequence of one-character strings. *)

Digits == <<"0", "1", "2", "3", "4", "5", "6", "7", "8", "9">>

IsDigit(c) == \E i \in 1..10 : Digits[i] = c

DigitVal(c) == (CHOOSE i \in 1..10 : Digits[i] = c) - 1

DigitChar(n) == Digits[n + 1]

\* '%02d' / '%04d' as strftime renders a field
Pad2(n) == <<DigitChar(n \div 10), DigitChar(n % 10)>>

Pad4(n) == <<DigitChar(n \div 1000), DigitChar((n \div 100) % 10),
             DigitChar((n \div 10) % 10), DigitChar(n % 10)>>

\* Long texts (titles, contents) are kept run-length encoded: a sequence of
\* runs <<c, n>>, n >= 1 copies of character c, adjacent runs of different
\* characters.
Run(c, n) == << <<c, n>> >>

RECURSIVE TextLen(_)
\* len(text)
TextLen(t) == IF t = <<>> THEN 0 ELSE Head(t)[2] + TextLen(Tail(t))

RECURSIVE Prefix(_, _)
\* text[:k]
Prefix(t, k) ==
    IF k <= 0 \/ t = <<>> THEN <<>>
    ELSE IF Head(t)[2] >= k THEN << <<Head(t)[1], k>> >>
    ELSE <<Head(t)>> \o Prefix(Tail(t), k - Head(t)[2])

\* text + c * n
Plus(t, c, n) ==
    IF t # <<>> /\ t[Len(t)][1] = c
    THEN [t EXCEPT ![Len(t)] = <<c, @[2] + n>>]
    ELSE Append(t, <<c, n>>)

CharAt(t, i) == IF i \in 1..Len(t) THEN t[i] ELSE ""

----------------------------------------------------------------------------
(* Values of the created_at column as the driver returns them: sqlite3     *)
(* returns the stored text (a str), psycopg2 a datetime; a NULL is None.   *)
(* A datetime is <<year, month, day, hour, minute, second>>.               *)

StrVal(t) == [kind |-> "str", text |-> t, dt |-> <<>>]

DateVal(d) == [kind |-> "datetime", text |-> <<>>, dt |-> d]

NoneVal == [kind |-> "none", text |-> <<>>, dt |-> <<>>]

MAXYEAR == 9999

IsLeap(y) == y % 4 = 0 /\ (y % 100 # 0 \/ y % 400 = 0)

DaysInMonth(y, m) ==
    IF m = 2 THEN (IF IsLeap(y) THEN 29 ELSE 28)
    ELSE IF m \in {4, 6, 9, 11} THEN 30 ELSE 31

\* A run of one or two digits at position i: its length and value.
Field(t, i) ==
    IF IsDigit(CharAt(t, i))
    THEN IF IsDigit(CharAt(t, i + 1))
         THEN [n |-> 2, v |-> 10 * DigitVal(t[i]) + DigitVal(t[i + 1])]
         ELSE [n |-> 1, v |-> DigitVal(t[i])]
    ELSE [n |-> 0, v |-> 0]

\* %d also accepts a space followed by one digit 1-9.
DayField(t, i) ==
    IF IsDigit(CharAt(t, i)) THEN Field(t, i)
    ELSE IF CharAt(t, i) = " " /\ IsDigit(CharAt(t, i + 1)) /\ DigitVal(t[i + 1]) >= 1
         THEN [n |-> 2, v |-> DigitVal(t[i + 1])]
         ELSE [n |-> 0, v |-> 0]

RECURSIVE SkipSpaces(_, _)
SkipSpaces(t, i) == IF CharAt(t, i) = " " THEN SkipSpaces(t, i + 1) ELSE i

\* datetime.strptime(created_at, '%Y-%m-%d %H:%M:%S'): ok = FALSE is ValueError.
\* The format's regular expression, then the datetime constructor's checks.
strptime(t) ==
    LET yOk == \A k \in 1..4 : IsDigit(CharAt(t, k))
        y   == IF yOk THEN 1000 * DigitVal(t[1]) + 100 * DigitVal(t[2])
                           + 10 * DigitVal(t[3]) + DigitVal(t[4])
               ELSE 0
        mo  == Field(t, 6)
        p2  == 6 + mo.n
        d   == DayField(t, p2 + 1)
        p3  == p2 + 1 + d.n
        hS  == SkipSpaces(t, p3)
        h   == Field(t, hS)
        p4  == hS + h.n
        mi  == Field(t, p4 + 1)
        p5  == p4 + 1 + mi.n
        s   == Field(t, p5 + 1)
        end == p5 + 1 + s.n
        matches ==
            /\ yOk /\ CharAt(t, 5) = "-"
            /\ mo.n > 0 /\ mo.v \in 1..12 /\ CharAt(t, p2) = "-"
            /\ d.n > 0 /\ d.v \in 1..31
            /\ hS > p3
            /\ h.n > 0 /\ h.v \in 0..23 /\ CharAt(t, p4) = ":"
            /\ mi.n > 0 /\ mi.v \in 0..59 /\ CharAt(t, p5) = ":"
            /\ s.n > 0 /\ s.v \in 0..61
            /\ end = Len(t) + 1
        valid == y >= 1 /\ d.v <= DaysInMonth(y, mo.v) /\ s.v <= 59
    IN  IF matches /\ valid
        THEN [ok |-> TRUE, dt |-> <<y, mo.v, d.v, h.v, mi.v, s.v>>]
        ELSE [ok |-> FALSE, dt |-> <<>>]

\* dt + timedelta(hours=n) for 0 <= n < 24: ok = FALSE is OverflowError.
PlusHours(dt, n) ==
    LET h2    == dt[4] + n
        roll  == h2 >= 24
        d2    == IF roll THEN dt[3] + 1 ELSE dt[3]
        mroll == d2 > DaysInMonth(dt[1], dt[2])
        m2    == IF mroll THEN dt[2] + 1 ELSE dt[2]
        yroll == m2 > 12
        y2    == IF yroll THEN dt[1] + 1 ELSE dt[1]
    IN  IF y2 > MAXYEAR
        THEN [ok |-> FALSE, dt |-> <<>>]
        ELSE [ok |-> TRUE,
              dt |-> <<y2, IF yroll THEN 1 ELSE m2, IF mroll THEN 1 ELSE d2,
                       IF roll THEN h2 - 24 ELSE h2, dt[5], dt[6]>>]

BeijingOffset == 8

\* A variant that moves the hour and forgets to carry into the date.
beijing_time_same_day(dt) ==
    [ok |-> TRUE,
     dt |-> <<dt[1], dt[2], dt[3], (dt[4] + BeijingOffset) % 24, dt[5], dt[6]>>]

beijing_time(dt) == PlusHours(dt, BeijingOffset)

\* strftime('%Y-%m-%d %H:%M:%S')
strftime(dt) ==
    Pad4(dt[1]) \o <<"-">> \o Pad2(dt[2]) \o <<"-">> \o Pad2(dt[3]) \o <<" ">>
    \o Pad2(dt[4]) \o <<":">> \o Pad2(dt[5]) \o <<":">> \o Pad2(dt[6])

\* `if created_at:` -- None and '' are falsy
Truthy(v) == \/ v.kind = "datetime"
             \/ v.kind = "str" /\ v.text # <<>>

\* The rendering of created_at in get_posts and get_post (the same block in
\* both): on ValueError or OverflowError the stored value is passed through.
formatted_time(created_at) ==
    IF ~Truthy(created_at) THEN created_at
    ELSE LET parsed == IF created_at.kind = "str" THEN strptime(created_at.text)
                       ELSE [ok |-> TRUE, dt |-> created_at.dt]
             moved  == IF parsed.ok THEN beijing_time(parsed.dt)
                       ELSE [ok |-> FALSE, dt |-> <<>>]
         IN  IF moved.ok THEN StrVal(strftime(moved.dt)) ELSE created_at

----------------------------------------------------------------------------
(* Configuration and the two stores. *)

NoUrl == ""

PlaceholderUrl == "{{Postgres.DATABASE_URL}}"

ValidUrl == "postgresql://forum"

Urls == {NoUrl, PlaceholderUrl, ValidUrl}

Stores == {"primary", "embedded"}

\* A store before init_db has reached it: no tables.  userSeq and postSeq are
\* the id generators (SERIAL's sequence, AUTOINCREMENT's sqlite_sequence row).
EmptyStore == [tables |-> FALSE, users |-> <<>>, posts |-> <<>>,
               userSeq |-> 0, postSeq |-> 0]

Names == {"a", "b"}

Passwords == {"p1", "p2"}

AuthorIds == {1, 9}

PreviewLen == 100

ShortContent == Run("h", 2)

LongContent == Run("x", PreviewLen + 1)

Contents == {ShortContent, LongContent}

Title == Run("t", 1)

\* The seed post of init_db: its content is 122 characters long.
SeedTitle == Run("w", 7)

SeedLen == 122

SeedContent == Run("s", SeedLen)

SeedAuthor == 1

\* The stores' clock: CURRENT_TIMESTAMP is Clock[now].
Clock == << <<2024, 12, 31, 15, 59, 59>>, <<2024, 12, 31, 16, 0, 0>> >>

\* created_at TIMESTAMP DEFAULT CURRENT_TIMESTAMP, as each driver returns it
CURRENT_TIMESTAMP(s) ==
    IF s = "primary" THEN DateVal(Clock[now]) ELSE StrVal(strftime(Clock[now]))

\* database_url.startswith('{{') and database_url.endswith('}}')
IsPlaceholder(url) == url = PlaceholderUrl

\* get_db_connection: the store the returned connection is to.  connectOk is
\* whether psycopg2.connect succeeds this time.
get_db_connection(connectOk) ==
    IF database_url # NoUrl /\ POSTGRES_AVAILABLE
    THEN IF IsPlaceholder(database_url) THEN "embedded"
         ELSE IF connectOk THEN "primary" ELSE "embedded"
    ELSE "embedded"

\* `if os.environ.get('DATABASE_URL'):` -- the SQL text every call site picks
env_dialect == IF database_url # NoUrl THEN "primary" ELSE "embedded"

\* Whether the store of connection s runs a statement: its tables must exist,
\* and a statement with parameters must use the store's placeholder style
\* ('%s' is a syntax error in SQLite).
Executes(s, hasParams) ==
    /\ db[s].tables
    /\ hasParams => env_dialect = s

UserIds(s) == {db[s].users[i].id : i \in 1..Len(db[s].users)}

UserNames(s) == {db[s].users[i].name : i \in 1..Len(db[s].users)}

\* posts.author_id REFERENCES users (id): PostgreSQL enforces it, SQLite does
\* not (foreign_keys is off on a sqlite3 connection).
ForeignKeyOk(s, author_id) == s = "primary" => author_id \in UserIds(s)

\* INSERT INTO posts (title, content, author_id): the id generator advances
\* on PostgreSQL even when the row is rejected.
InsertPost(s, title, content, author_id) ==
    LET id == db[s].postSeq + 1
        row == [id |-> id, title |-> title, content |-> content,
                author_id |-> author_id, created_at |-> CURRENT_TIMESTAMP(s)]
    IN  IF ForeignKeyOk(s, author_id)
        THEN [ok |-> TRUE, id |-> id,
              store |-> [db[s] EXCEPT !.posts = Append(@, row), !.postSeq = id]]
        ELSE [ok |-> FALSE, id |-> 0,
              store |-> [db[s] EXCEPT !.postSeq = id]]

\* A call and its response.  conn is the store of the connection the call
\* opened ("none": it opened none); known is whether, when a register call
\* was made, an earlier register call had answered 201 for its name.
Response(op, arg, conn, status, message, data, known) ==
    [op |-> op, arg |-> arg, conn |-> conn, status |-> status,
     message |-> message, data |-> data, known |-> known]

NoResponse == Response("none", <<>>, "none", 0, "", <<>>, FALSE)

Procs == {1, 2}

NoSample == [fields |-> <<>>, style |-> "none"]

\* The outcomes psycopg2.connect can have: it is only called for a real URL
\* with the driver present.
ConnectOutcomes ==
    IF database_url = ValidUrl /\ POSTGRES_AVAILABLE THEN BOOLEAN ELSE {TRUE}

\* The outcomes get_json can have on this body.
JsonOutcomes(body) == IF body.kind = "absent" THEN BOOLEAN ELSE {FALSE}

NoCall == [name |-> "", password |-> "", conn |-> "none", user_id |-> 0]

Init ==
    /\ database_url \in Urls
    /\ POSTGRES_AVAILABLE \in BOOLEAN
    /\ db = [s \in Stores |-> EmptyStore]
    /\ running = FALSE
    /\ starts = 0
    /\ openConns = 0
    /\ now = 1
    /\ resp = NoResponse
    /\ registered = {}
    /\ created = {}
    /\ pc = [p \in Procs |-> "idle"]
    /\ call = [p \in Procs |-> NoCall]
    /\ writer = 0
    /\ sample = NoSample

----------------------------------------------------------------------------
(* Request bodies and request.get_json(). *)

\* kind "absent": the request carries no parseable JSON body; "null": the
\* body is JSON null; "object": a JSON object holding the fields in `fields`.
Body(kind, fields, vals) == [kind |-> kind, fields |-> fields, vals |-> vals]

NoVals == [name |-> "", password |-> "", content |-> <<>>, author_id |-> 0]

RegisterBodies ==
    {Body("absent", {}, NoVals), Body("null", {}, NoVals), Body("object", {}, NoVals)}
    \cup {Body("object", {"name"}, [NoVals EXCEPT !.name = n]) : n \in Names}
    \cup {Body("object", {"password"}, [NoVals EXCEPT !.password = w]) : w \in Passwords}
    \cup {Body("object", {"name", "password"},
               [NoVals EXCEPT !.name = n, !.password = w]) : n \in Names, w \in Passwords}

PostFields == {"title", "content", "author_id"}

PostBodies ==
    {Body("absent", {}, NoVals), Body("null", {}, NoVals)}
    \cup {Body("object", PostFields \ {f},
               [NoVals EXCEPT !.content = ShortContent, !.author_id = 1]) : f \in PostFields}
    \cup {Body("object", PostFields,
               [NoVals EXCEPT !.content = c, !.author_id = a]) : c \in Contents, a \in AuthorIds}

PostIds == 1..(MaxPosts + 1)

\* request.get_json() on a request without a parseable JSON body either
\* returns None or raises (BadRequest / UnsupportedMediaType), by framework
\* version and Content-Type; jsonRaises picks which.
JsonRaises(body, jsonRaises) == body.kind = "absent" /\ jsonRaises

\* `not data`: None and {} are falsy
NotData(body) == body.kind # "object" \/ body.fields = {}

----------------------------------------------------------------------------
(* Statements. *)

\* A variant for a users table created without UNIQUE on name.
NameNeverTaken(s, name) == FALSE

\* name ... UNIQUE NOT NULL: whether a committed row already has the name
NameTaken(s, name) == name \in UserNames(s)

\* INSERT INTO users (name, password): name is UNIQUE; the id generator
\* advances on PostgreSQL even when the row is rejected.
InsertUser(s, name, password) ==
    LET id == db[s].userSeq + 1
        row == [id |-> id, name |-> name, password |-> password]
    IN  IF ~NameTaken(s, name)
        THEN [ok |-> TRUE, id |-> id,
              store |-> [db[s] EXCEPT !.users = Append(@, row), !.userSeq = id]]
        ELSE [ok |-> FALSE, id |-> 0,
              store |-> IF s = "primary" THEN [db[s] EXCEPT !.userSeq = id] ELSE db[s]]

\* Code points of the characters a created_at text is compared by.
Alphabet == <<" ", "-", ".", "0", "1", "2", "3", "4", "5", "6", "7", "8", "9",
              ":", "T", "n", "o", "w">>

CharOrd(c) == CHOOSE i \in 1..Len(Alphabet) : Alphabet[i] = c

Codes(t) == [i \in DOMAIN t |-> CharOrd(t[i])]

RECURSIVE SeqLess(_, _)
\* Lexicographic order of two sequences of integers.
SeqLess(a, b) ==
    IF b = <<>> THEN FALSE
    ELSE IF a = <<>> THEN TRUE
    ELSE IF Head(a) # Head(b) THEN Head(a) < Head(b)
    ELSE SeqLess(Tail(a), Tail(b))

\* created_at < created_at as the store compares the column: NULL first, text
\* by bytes, timestamps by time.
CreatedLess(a, b) ==
    IF a.kind # b.kind THEN a.kind = "none"
    ELSE IF a.kind = "str" THEN SeqLess(Codes(a.text), Codes(b.text))
    ELSE IF a.kind = "datetime" THEN SeqLess(a.dt, b.dt)
    ELSE FALSE

\* A variant with LEFT JOIN: a post without a users row comes with a NULL
\* author_name.
LeftJoined(s) ==
    {[id |-> db[s].posts[j].id, title |-> db[s].posts[j].title,
      content |-> db[s].posts[j].content, author_id |-> db[s].posts[j].author_id,
      author_name |-> "", created_at |-> db[s].posts[j].created_at] :
        j \in 1..Len(db[s].posts)}

\* FROM posts JOIN users ON posts.author_id = users.id: one row per pair of
\* a post and a user with that id.
Joined(s) ==
    {[id |-> db[s].posts[x[1]].id, title |-> db[s].posts[x[1]].title,
      content |-> db[s].posts[x[1]].content,
      author_id |-> db[s].posts[x[1]].author_id,
      author_name |-> db[s].users[x[2]].name,
      created_at |-> db[s].posts[x[1]].created_at] :
        x \in {y \in (1..Len(db[s].posts)) \X (1..Len(db[s].users)) :
                 db[s].posts[y[1]].author_id = db[s].users[y[2]].id}}

\* The orders in which a query may return the rows S: every row once.
Arrangements(S) ==
    {q \in [1..Cardinality(S) -> S] : \A i, j \in DOMAIN q : i # j => q[i] # q[j]}

\* ORDER BY posts.created_at DESC: rows with equal created_at in any order
OrderedByCreatedDesc(S) ==
    {q \in Arrangements(S) :
        \A i, j \in DOMAIN q : i < j => ~CreatedLess(q[i].created_at, q[j].created_at)}

\* ORDER BY id
OrderedById(S) ==
    {q \in Arrangements(S) : \A i, j \in DOMAIN q : i < j => q[i].id <= q[j].id}

\* content_preview: the first 100 characters and '...' when longer
content_preview(content) ==
    IF TextLen(content) > PreviewLen
    THEN Plus(Prefix(content, PreviewLen), ".", 3)
    ELSE content

\* One element of posts_list (get_posts)
PostSummary(post) ==
    [id |-> post.id, title |-> post.title,
     content_preview |-> content_preview(post.content), content |-> post.content,
     author_id |-> post.author_id, author_name |-> post.author_name,
     created_at |-> formatted_time(post.created_at)]

\* A variant that returns the list's preview as the content.
post_detail_preview(post) ==
    [id |-> post.id, title |-> post.title, content |-> content_preview(post.content),
     author_id |-> post.author_id, author_name |-> post.author_name,
     created_at |-> formatted_time(post.created_at)]

\* post_detail (get_post)
post_detail(post) ==
    [id |-> post.id, title |-> post.title, content |-> post.content,
     author_id |-> post.author_id, author_name |-> post.author_name,
     created_at |-> formatted_time(post.created_at)]

----------------------------------------------------------------------------
(* The outcome of one handler call: the response, whether the connection   *)
(* it opened was left open, and the contents of that connection's store    *)
(* after it.                                                               *)

Outcome(conn, status, message, data, leaked, store) ==
    [conn |-> conn, status |-> status, message |-> message, data |-> data,
     leaked |-> leaked, store |-> store]

\* No connection was opened.
Early(status, message) == Outcome("none", status, message, <<>>, FALSE, EmptyStore)

\* A statement raised after the connection was opened: the except clause
\* answers 500 and no close() is reached.
Raised(conn, message, store) == Outcome(conn, 500, message, <<>>, TRUE, store)

\* register()
register(body, connectOk, jsonRaises) ==
    LET conn == get_db_connection(connectOk)
        name == body.vals.name
        ins  == InsertUser(conn, name, body.vals.password)
    IN  IF JsonRaises(body, jsonRaises) THEN Early(500, "registration failed")
        ELSE IF NotData(body) \/ "name" \notin body.fields \/ "password" \notin body.fields
        THEN Early(400, "name and password required")
        ELSE IF ~Executes(conn, TRUE) THEN Raised(conn, "registration failed", db[conn])
        ELSE IF name \in UserNames(conn)
        THEN Outcome(conn, 400, "username already exists", <<>>, FALSE, db[conn])
        ELSE IF ~ins.ok THEN Raised(conn, "registration failed", ins.store)
        ELSE Outcome(conn, 201, "registered", ins.id, FALSE, ins.store)

\* get_users(): SELECT * FROM users ORDER BY id
get_users(connectOk, users_list) ==
    LET conn == get_db_connection(connectOk)
    IN  IF ~Executes(conn, FALSE) THEN Raised(conn, "error", db[conn])
        ELSE Outcome(conn, 200, "", users_list, FALSE, db[conn])

UsersLists(connectOk) ==
    LET conn == get_db_connection(connectOk)
    IN  OrderedById({db[conn].users[i] : i \in 1..Len(db[conn].users)})

\* create_post()
create_post(body, connectOk, jsonRaises) ==
    LET conn == get_db_connection(connectOk)
        ins  == InsertPost(conn, Title, body.vals.content, body.vals.author_id)
    IN  IF JsonRaises(body, jsonRaises) THEN Early(500, "post failed")
        ELSE IF body.kind # "object" \/ body.fields # PostFields
        THEN Raised(conn, "post failed", db[conn])
        ELSE IF ~Executes(conn, TRUE) THEN Raised(conn, "post failed", db[conn])
        ELSE IF ~ins.ok THEN Raised(conn, "post failed", ins.store)
        ELSE Outcome(conn, 201, "posted", ins.id, FALSE, ins.store)

\* get_posts(): posts is the query's result, ORDER BY posts.created_at DESC
get_posts(connectOk, posts) ==
    LET conn == get_db_connection(connectOk)
    IN  IF ~Executes(conn, FALSE) THEN Raised(conn, "error", db[conn])
        ELSE Outcome(conn, 200, "", [i \in DOMAIN posts |-> PostSummary(posts[i])],
                     FALSE, db[conn])

PostsResults(connectOk) ==
    OrderedByCreatedDesc(Joined(get_db_connection(connectOk)))

\* get_post(post_id): the connection is closed right after fetchone()
get_post(post_id, connectOk) ==
    LET conn == get_db_connection(connectOk)
        rows == {post \in Joined(conn) : post.id = post_id}
    IN  IF ~Executes(conn, TRUE) THEN Raised(conn, "error", db[conn])
        ELSE IF rows = {}
        THEN Outcome(conn, 404, "post not found", <<>>, FALSE, db[conn])
        ELSE Outcome(conn, 200, "", post_detail(CHOOSE post \in rows : TRUE),
                     FALSE, db[conn])

\* The effect of a handler call with outcome o on the stores, the open
\* connections and the recorded response.
Handle(op, arg, o, known) ==
    /\ running
    /\ o.leaked => openConns < MaxOpen
    /\ o.conn # "none" =>
          /\ Len(o.store.users) <= MaxUsers
          /\ Len(o.store.posts) <= MaxPosts
          /\ o.store.userSeq <= MaxSerial
          /\ o.store.postSeq <= MaxSerial
    /\ db' = IF o.conn = "none" THEN db ELSE [db EXCEPT ![o.conn] = o.store]
    /\ openConns' = IF o.leaked THEN openConns + 1 ELSE openConns
    /\ resp' = Response(op, arg, o.conn, o.status, o.message, o.data, known)
    /\ UNCHANGED <<config, running, starts, now, inflight, sample>>

Register ==
    \E body \in RegisterBodies, connectOk \in ConnectOutcomes :
      \E jsonRaises \in JsonOutcomes(body) :
        LET o == register(body, connectOk, jsonRaises)
        IN  /\ Handle("register", body, o, body.vals.name \in registered)
            /\ registered' = IF o.status = 201 THEN registered \cup {body.vals.name}
                             ELSE registered
            /\ UNCHANGED created

ListUsers ==
    \E connectOk \in ConnectOutcomes :
        \E users_list \in UsersLists(connectOk) :
            /\ Handle("get_users", <<>>, get_users(connectOk, users_list), FALSE)
            /\ UNCHANGED <<registered, created>>

CreatePost ==
    \E body \in PostBodies, connectOk \in ConnectOutcomes :
      \E jsonRaises \in JsonOutcomes(body) :
        LET o == create_post(body, connectOk, jsonRaises)
        IN  /\ Handle("create_post", body, o, FALSE)
            /\ created' = IF o.status = 201
                          THEN created \cup {[store |-> o.conn, id |-> o.data,
                                              author_id |-> body.vals.author_id]}
                          ELSE created
            /\ UNCHANGED registered

ListPosts ==
    \E connectOk \in ConnectOutcomes :
        \E posts \in PostsResults(connectOk) :
            /\ Handle("get_posts", <<>>, get_posts(connectOk, posts), FALSE)
            /\ UNCHANGED <<registered, created>>

GetPost ==
    \E post_id \in PostIds, connectOk \in ConnectOutcomes :
        /\ Handle("get_post", post_id, get_post(post_id, connectOk), FALSE)
        /\ UNCHANGED <<registered, created>>

Tick ==
    /\ now < Len(Clock)
    /\ now' = now + 1
    /\ UNCHANGED <<config, db, running, starts, openConns, resp, registered,
                   created, inflight, sample>>

\* init_db, run once at each process start, before any call is served.  A
\* new process holds none of the connections the previous one left open, and
\* with them went any lock they held.
init_db(connectOk) ==
    LET conn     == get_db_connection(connectOk)
        withDDL  == [db[conn] EXCEPT !.tables = TRUE]
        user_count == Len(db[conn].users)
        seeds    == user_count = 0
        ins      == InsertPost(conn, SeedTitle, SeedContent, SeedAuthor)
        seeded   == seeds /\ env_dialect = conn /\ ins.ok
        after    == IF ~seeds \/ env_dialect # conn THEN withDDL
                    ELSE [ins.store EXCEPT !.tables = TRUE]
    IN  /\ starts < MaxStarts
        /\ \A p \in Procs : pc[p] = "idle"
        /\ seeded => Len(db[conn].posts) < MaxPosts
        /\ after.postSeq <= MaxSerial
        /\ db' = [db EXCEPT ![conn] = after]
        /\ running' = TRUE
        /\ starts' = starts + 1
        /\ openConns' = 0
        /\ resp' = Response("init_db", <<>>, conn,
                            0,
                            IF seeded THEN "seeded"
                            ELSE IF seeds THEN "failed" ELSE "not empty", <<>>,
                            FALSE)
        /\ writer' = 0
        /\ UNCHANGED <<config, now, registered, created, pc, call, sample>>

Start == \E connectOk \in ConnectOutcomes : init_db(connectOk)

Next ==
    \/ Tick
    \/ Start
    \/ Register
    \/ ListUsers
    \/ CreatePost
    \/ ListPosts
    \/ GetPost

Spec == Init /\ [][Next]_vars

----------------------------------------------------------------------------
(* Claims about the handlers run one after another (Spec). *)

RowsNamed(s, name) == {i \in 1..Len(db[s].users) : db[s].users[i].name = name}

PostsWithId(s, id) == {i \in 1..Len(db[s].posts) : db[s].posts[i].id = id}

EntriesWithId(list, id) == {i \in 1..Len(list) : list[i].id = id}

IsSeed(post) == post.title = SeedTitle /\ post.content = SeedContent

SeedRows(s) == {i \in 1..Len(db[s].posts) : IsSeed(db[s].posts[i])}

\* C1: once register has answered 201 for a name, a later register call
\* with that name answers 400 'username already exists', and the users table
\* holds exactly one row with that name.
C1_SecondRegisterConflicts ==
    (resp.op = "register" /\ resp.arg.fields = {"name", "password"} /\ resp.known)
    => /\ resp.status = 400
       /\ resp.message = "username already exists"
       /\ resp.conn # "none"
       /\ Cardinality(RowsNamed(resp.conn, resp.arg.vals.name)) = 1

\* C2: after create_post has answered 201 with a post_id, every later
\* get_posts result holds exactly one entry with that post_id, whatever the
\* post's author_id.
C2_CreatedPostListedOnce ==
    (resp.op = "get_posts" /\ resp.status = 200)
    => \A c \in created : Cardinality(EntriesWithId(resp.data, c.id)) = 1

\* C2 as amended: a later get_posts served by the store that took the post
\* holds at most one entry with that post_id, and holds one exactly when the
\* post's author_id is the id of a row of that store's users table.
C2_CreatedPostListedIfAuthorExists ==
    (resp.op = "get_posts" /\ resp.status = 200)
    => \A c \in created :
          c.store = resp.conn =>
             Cardinality(EntriesWithId(resp.data, c.id))
                = (IF \E i \in 1..Len(db[c.store].users) :
                         db[c.store].users[i].id = c.author_id
                   THEN 1 ELSE 0)

C2_Witness ==
    /\ resp.op = "get_posts" /\ resp.status = 200
    /\ \E c \in created :
          /\ c.store = resp.conn
          /\ Cardinality(EntriesWithId(resp.data, c.id)) = 1

\* C3: get_post(id) answers 404 'post not found' when no row of the posts
\* table has that id, and when one has, a success payload whose content is
\* the stored content in full.
C3_GetPostFindsEveryRow ==
    resp.op = "get_post"
    => IF PostsWithId(resp.conn, resp.arg) = {}
       THEN resp.status = 404 /\ resp.message = "post not found"
       ELSE /\ resp.status = 200
            /\ \E i \in PostsWithId(resp.conn, resp.arg) :
                  resp.data.content = db[resp.conn].posts[i].content

\* Whether the store of connection s runs get_post's query: its tables exist
\* and the '%s' text is not sent to SQLite.
QueryRuns(s) == db[s].tables /\ (database_url = NoUrl \/ s = "primary")

\* The rows of posts with this id whose author_id is the id of a users row.
AuthoredPosts(s, id) ==
    {i \in PostsWithId(s, id) :
        \E u \in 1..Len(db[s].users) : db[s].users[u].id = db[s].posts[i].author_id}

\* C3 as amended: get_post(id) answers 500 when the store does not run its
\* query; otherwise 404 'post not found' when no posts row with that id has
\* an author_id that is the id of a users row, and otherwise a success
\* payload whose content is the stored content in full.
C3_GetPostFindsAuthoredRows ==
    resp.op = "get_post"
    => IF ~QueryRuns(resp.conn) THEN resp.status = 500
       ELSE IF AuthoredPosts(resp.conn, resp.arg) = {}
       THEN resp.status = 404 /\ resp.message = "post not found"
       ELSE /\ resp.status = 200
            /\ resp.data.id = resp.arg
            /\ \E i \in AuthoredPosts(resp.conn, resp.arg) :
                  resp.data.content = db[resp.conn].posts[i].content

C3_Witness ==
    /\ resp.op = "get_post" /\ resp.status = 200
    /\ TextLen(resp.data.content) > PreviewLen

\* C4: after the first run of init_db on empty stores, in either dialect,
\* the users table is empty and the posts table holds exactly one row, the
\* seed post, with author_id = 1.
C4_FirstInitSeedsOnePost ==
    (resp.op = "init_db" /\ starts = 1)
    => /\ db[resp.conn].users = <<>>
       /\ Len(db[resp.conn].posts) = 1
       /\ IsSeed(db[resp.conn].posts[1])
       /\ db[resp.conn].posts[1].author_id = 1

\* C5: register called without the name field or the password field, or
\* without a body, answers 400 and opens no connection (so changes no table).
C5_MissingFieldIsValidationError ==
    (resp.op = "register" /\ resp.arg.fields # {"name", "password"})
    => /\ resp.status = 400
       /\ resp.message = "name and password required"
       /\ resp.conn = "none"

\* C7: whenever no request is in flight, no connection is open: every call
\* has closed the connection it opened by the time it returns.
C7_NoOpenConnections == openConns = 0

\* C8: the SQL dialect of a call's statements is that of the connection it
\* got; so register, create_post and get_post on a connection that fell back
\* to the embedded store answer as they do with no DATABASE_URL: never 500
\* for a complete request once the tables exist.
C8_DialectFollowsConnection ==
    resp.conn # "none"
    => /\ env_dialect = resp.conn
       /\ ( /\ resp.conn = "embedded"
            /\ db["embedded"].tables
            /\ \/ resp.op = "register" /\ resp.arg.fields = {"name", "password"}
               \/ resp.op = "create_post" /\ resp.arg.fields = PostFields
               \/ resp.op = "get_post" )
          => resp.status # 500

\* C10: however often init_db runs, with any calls in between, the posts
\* table holds at most one seed post.
C10_AtMostOneSeedPost == \A s \in Stores : Cardinality(SeedRows(s)) <= 1

----------------------------------------------------------------------------
(* The rendering of created_at on stored values of every shape (SpecTime): *)
(* a store that already holds one user and one post, whose created_at was  *)
(* written from `sample`; the handlers that render it are then called.     *)

SampleYears == {2023, 2024, 9999}

SampleDays == {<<2, 28>>, <<2, 29>>, <<12, 31>>, <<1, 1>>, <<13, 1>>, <<4, 31>>}

SampleHours == {0, 15, 16, 23, 24}

SampleMinSec == {<<0, 0>>, <<59, 59>>, <<0, 60>>}

SampleFields ==
    {<<y, md[1], md[2], h, ms[1], ms[2]>> :
        y \in SampleYears, md \in SampleDays, h \in SampleHours, ms \in SampleMinSec}

\* A field written without a leading zero
Bare(n) == IF n < 10 THEN <<DigitChar(n)>> ELSE Pad2(n)

\* The text a sample's fields are written as, by style.
Spell(f, style) ==
    IF style = "bare"
    THEN Pad4(f[1]) \o <<"-">> \o Bare(f[2]) \o <<"-">> \o Bare(f[3]) \o <<" ">>
         \o Bare(f[4]) \o <<":">> \o Bare(f[5]) \o <<":">> \o Bare(f[6])
    ELSE Pad4(f[1]) \o <<"-">> \o Pad2(f[2]) \o <<"-">> \o Pad2(f[3])
         \o (IF style = "iso" THEN <<"T">>
             ELSE IF style = "spaces" THEN <<" ", " ">> ELSE <<" ">>)
         \o Pad2(f[4]) \o <<":">> \o Pad2(f[5]) \o <<":">> \o Pad2(f[6])
         \o (IF style = "fraction" THEN <<".", "5">> ELSE <<>>)

\* The fields of a datetime object: psycopg2 only builds valid ones.
IsDate(f) ==
    /\ f[2] \in 1..12 /\ f[3] \in 1..DaysInMonth(f[1], f[2])
    /\ f[4] \in 0..23 /\ f[5] \in 0..59 /\ f[6] \in 0..59

\* SQLite keeps whatever was written into created_at; PostgreSQL keeps a
\* timestamp or NULL.
Samples(s) ==
    IF s = "embedded"
    THEN {[fields |-> f, style |-> st] :
             f \in SampleFields, st \in {"padded", "bare", "spaces", "iso", "fraction"}}
         \cup {[fields |-> <<>>, style |-> "empty"], [fields |-> <<>>, style |-> "null"],
               [fields |-> <<>>, style |-> "word"]}
    ELSE {[fields |-> f, style |-> "native"] : f \in {g \in SampleFields : IsDate(g)}}
         \cup {[fields |-> <<>>, style |-> "null"]}

Stored(smp) ==
    CASE smp.style = "null"   -> NoneVal
      [] smp.style = "empty"  -> StrVal(<<>>)
      [] smp.style = "word"   -> StrVal(<<"n", "o", "w">>)
      [] smp.style = "native" -> DateVal(smp.fields)
      [] OTHER                -> StrVal(Spell(smp.fields, smp.style))

\* The store the configuration's data lives in.
HomeStore == IF database_url = NoUrl THEN "embedded" ELSE "primary"

SampleStore(smp) ==
    [tables |-> TRUE,
     users |-> <<[id |-> 1, name |-> "a", password |-> "p1"]>>,
     posts |-> <<[id |-> 1, title |-> Title, content |-> ShortContent,
                  author_id |-> 1, created_at |-> Stored(smp)]>>,
     userSeq |-> 1, postSeq |-> 1]

InitTime ==
    /\ database_url \in {NoUrl, ValidUrl}
    /\ POSTGRES_AVAILABLE = TRUE
    /\ sample \in Samples(HomeStore)
    /\ db = [s \in Stores |-> IF s = HomeStore THEN SampleStore(sample) ELSE EmptyStore]
    /\ running = TRUE
    /\ starts = 1
    /\ openConns = 0
    /\ now = 1
    /\ resp = NoResponse
    /\ registered = {"a"}
    /\ created = {}
    /\ pc = [p \in Procs |-> "idle"]
    /\ call = [p \in Procs |-> NoCall]
    /\ writer = 0

NextTime == ListPosts \/ GetPost

SpecTime == InitTime /\ [][NextTime]_vars

\* The <<id, created_at>> pairs of the posts the last call returned.
Rendered ==
    IF resp.op = "get_post" /\ resp.status = 200
    THEN {<<resp.data.id, resp.data.created_at>>}
    ELSE IF resp.op = "get_posts" /\ resp.status = 200
    THEN {<<resp.data[i].id, resp.data[i].created_at>> : i \in 1..Len(resp.data)}
    ELSE {}

StoredCreatedAt(s, id) ==
    (CHOOSE post \in {db[s].posts[i] : i \in PostsWithId(s, id)} : TRUE).created_at

MonthLengths == <<31, 28, 31, 30, 31, 30, 31, 31, 30, 31, 30, 31>>

DaysBeforeMonth == <<0, 31, 59, 90, 120, 151, 181, 212, 243, 273, 304, 334>>

LeapDay(y) == IF y % 4 = 0 /\ (y % 100 # 0 \/ y % 400 = 0) THEN 1 ELSE 0

\* The fields name a date and time of the calendar.
WellFormed(f) ==
    /\ f[1] \in 1..9999 /\ f[2] \in 1..12
    /\ f[3] >= 1
    /\ f[3] <= MonthLengths[f[2]] + (IF f[2] = 2 THEN LeapDay(f[1]) ELSE 0)
    /\ f[4] \in 0..23 /\ f[5] \in 0..59 /\ f[6] \in 0..59

\* Hours from 0001-01-01 00:00 to the hour of f.
HoursOf(f) ==
    LET y == f[1] - 1
        days == 365 * y + (y \div 4) - (y \div 100) + (y \div 400)
                + DaysBeforeMonth[f[2]] + (IF f[2] > 2 THEN LeapDay(f[1]) ELSE 0)
                + (f[3] - 1)
    IN  24 * days + f[4]

LastHour == HoursOf(<<9999, 12, 31, 23, 59, 59>>)

\* The text is 'YYYY-MM-DD HH:MM:SS' digit for digit.
Canonical(t) ==
    /\ Len(t) = 19
    /\ t[5] = "-" /\ t[8] = "-" /\ t[11] = " " /\ t[14] = ":" /\ t[17] = ":"
    /\ \A i \in (1..19) \ {5, 8, 11, 14, 17} : IsDigit(t[i])

TwoDigits(t, i) == 10 * DigitVal(t[i]) + DigitVal(t[i + 1])

FieldsOf(t) ==
    <<100 * TwoDigits(t, 1) + TwoDigits(t, 3), TwoDigits(t, 6), TwoDigits(t, 9),
      TwoDigits(t, 12), TwoDigits(t, 15), TwoDigits(t, 18)>>

\* v is the timestamp f plus exactly 8 hours, as 'YYYY-MM-DD HH:MM:SS'.
IsEightHoursAfter(v, f) ==
    /\ v.kind = "str" /\ Canonical(v.text)
    /\ LET g == FieldsOf(v.text)
       IN  /\ WellFormed(g)
           /\ HoursOf(g) = HoursOf(f) + 8
           /\ g[5] = f[5] /\ g[6] = f[6]

\* The sample is a timestamp: a datetime, or a text the format accepts.
IsTimestamp(smp) ==
    /\ smp.style \in {"padded", "bare", "spaces", "native"}
    /\ WellFormed(smp.fields)

\* C6: for every post get_posts or get_post returns: a stored created_at
\* that is a well-formed timestamp t is rendered as t plus exactly 8 hours;
\* one that is empty or cannot be parsed is rendered unchanged; and the
\* call answers with success.
C6_RenderedEightHoursLater ==
    /\ \A r \in Rendered :
          IF IsTimestamp(sample)
          THEN IsEightHoursAfter(r[2], sample.fields)
          ELSE r[2] = StoredCreatedAt(resp.conn, r[1])
    /\ (resp.op = "get_posts" /\ resp.conn = HomeStore)
          => resp.status = 200 /\ Len(resp.data) = 1
    /\ (resp.op = "get_post" /\ resp.conn = HomeStore /\ resp.arg = 1)
          => resp.status = 200

\* C6 as amended: a well-formed timestamp t is rendered as t plus exactly 8
\* hours when t plus 8 hours is no later than 9999-12-31 23:59:59, the last
\* representable time; a later t, like an empty or unparseable value, is
\* rendered unchanged; and the call answers with success.
C6_RenderedEightHoursLaterUnlessPastRange ==
    /\ \A r \in Rendered :
          IF IsTimestamp(sample) /\ HoursOf(sample.fields) + 8 <= LastHour
          THEN IsEightHoursAfter(r[2], sample.fields)
          ELSE r[2] = StoredCreatedAt(resp.conn, r[1])
    /\ (resp.op = "get_posts" /\ resp.conn = HomeStore)
          => resp.status = 200 /\ Len(resp.data) = 1
    /\ (resp.op = "get_post" /\ resp.conn = HomeStore /\ resp.arg = 1)
          => resp.status = 200

\* A post stored late on the last day of a month, rendered on the next day.
C6_Witness ==
    /\ Rendered # {}
    /\ IsTimestamp(sample)
    /\ sample.fields[4] >= 16
    /\ sample.fields[1] < 9999
    /\ \E r \in Rendered : r[2] # StoredCreatedAt(resp.conn, r[1])

----------------------------------------------------------------------------
(* register() called concurrently (SpecConc): each call is split at its    *)
(* statements -- the existence check, the INSERT, the commit.  A call      *)
(* between its INSERT and its commit holds an uncommitted row, which the   *)
(* other calls' SELECT does not see.                                       *)

\* A connection that was left open inside a transaction and still holds
\* database.db's write lock.
Orphan == 0 - 1

\* The uncommitted users rows of store s
Pending(s) == {p \in Procs : pc[p] = "commit" /\ call[p].conn = s}

\* The call of p answers and ends.
Finish(p, o, known) ==
    /\ o.leaked => openConns < MaxOpen
    /\ openConns' = IF o.leaked THEN openConns + 1 ELSE openConns
    /\ resp' = Response("register",
                        Body("object", {"name", "password"},
                             [NoVals EXCEPT !.name = call[p].name,
                                            !.password = call[p].password]),
                        o.conn, o.status, o.message, o.data, known)
    /\ pc' = [pc EXCEPT ![p] = "idle"]
    /\ call' = [call EXCEPT ![p] = NoCall]

\* The bodies concurrent call p is made with: no body, or a complete one
\* with any name and the caller's own password.
ConcurrentBodies(p) ==
    {Body("absent", {}, NoVals)}
    \cup {Body("object", {"name", "password"},
               [NoVals EXCEPT !.name = n,
                              !.password = IF p = 1 THEN "p1" ELSE "p2"]) : n \in Names}

\* Lines 141-151: the body is read and validated, the connection opened.
RegisterBegin(p) ==
    \E body \in ConcurrentBodies(p), connectOk \in ConnectOutcomes :
      \E jsonRaises \in JsonOutcomes(body) :
        /\ running
        /\ pc[p] = "idle"
        /\ IF JsonRaises(body, jsonRaises) \/ NotData(body)
              \/ "name" \notin body.fields \/ "password" \notin body.fields
           THEN /\ resp' = Response("register", body, "none",
                                    IF JsonRaises(body, jsonRaises) THEN 500 ELSE 400,
                                    IF JsonRaises(body, jsonRaises)
                                    THEN "registration failed"
                                    ELSE "name and password required",
                                    <<>>, body.vals.name \in registered)
                /\ UNCHANGED <<pc, call>>
           ELSE /\ pc' = [pc EXCEPT ![p] = "check"]
                /\ call' = [call EXCEPT ![p] =
                               [name |-> body.vals.name, password |-> body.vals.password,
                                conn |-> get_db_connection(connectOk), user_id |-> 0]]
                /\ UNCHANGED resp
        /\ UNCHANGED <<config, db, running, starts, openConns, now, registered,
                       created, writer, sample>>

\* Lines 153-163: SELECT id FROM users WHERE name = ..., over committed rows.
RegisterCheck(p) ==
    LET conn == call[p].conn
        known == call[p].name \in registered
    IN  /\ pc[p] = "check"
        /\ IF ~Executes(conn, TRUE)
           THEN Finish(p, Raised(conn, "registration failed", db[conn]), known)
           ELSE IF call[p].name \in UserNames(conn)
           THEN Finish(p, Outcome(conn, 400, "username already exists", <<>>,
                                  FALSE, db[conn]), known)
           ELSE /\ pc' = [pc EXCEPT ![p] = "insert"]
                /\ UNCHANGED <<call, resp, openConns>>
        /\ UNCHANGED <<config, db, running, starts, now, registered, created,
                       writer, sample>>

\* Lines 165-171: the INSERT.  SQLite lets one connection write at a time:
\* while another holds the write lock the statement fails with 'database is
\* locked'.  PostgreSQL makes the statement wait while another transaction
\* holds an uncommitted row with the same name.  A statement that fails
\* inside its transaction leaves the connection open; whether the runtime
\* reclaims it, and with it SQLite's lock, is not decided by the code.
RegisterInsert(p) ==
    LET conn == call[p].conn
        known == call[p].name \in registered
        ins == InsertUser(conn, call[p].name, call[p].password)
    IN  /\ pc[p] = "insert"
        /\ IF conn = "embedded" /\ writer # 0
           THEN /\ Finish(p, Raised(conn, "registration failed", db[conn]), known)
                /\ UNCHANGED <<db, writer>>
           ELSE IF ~ins.ok
           THEN /\ ins.store.userSeq <= MaxSerial
                /\ Finish(p, Raised(conn, "registration failed", ins.store), known)
                /\ db' = [db EXCEPT ![conn] = ins.store]
                /\ IF conn = "embedded"
                   THEN \E reclaimed \in BOOLEAN :
                           writer' = IF reclaimed THEN 0 ELSE Orphan
                   ELSE UNCHANGED writer
           ELSE /\ \A q \in Pending(conn) : call[q].name # call[p].name
                /\ Len(db[conn].users) + Cardinality(Pending(conn)) < MaxUsers
                /\ ins.id <= MaxSerial
                /\ pc' = [pc EXCEPT ![p] = "commit"]
                /\ call' = [call EXCEPT ![p].user_id = ins.id]
                /\ db' = IF conn = "primary"
                         THEN [db EXCEPT ![conn].userSeq = ins.id]
                         ELSE db
                /\ writer' = IF conn = "embedded" THEN p ELSE writer
                /\ UNCHANGED <<resp, openConns>>
        /\ UNCHANGED <<config, running, starts, now, registered, created, sample>>

\* Lines 173-181: conn.commit(), conn.close(), the 201 answer.
RegisterCommit(p) ==
    LET conn == call[p].conn
        row == [id |-> call[p].user_id, name |-> call[p].name,
                password |-> call[p].password]
    IN  /\ pc[p] = "commit"
        /\ db' = [db EXCEPT ![conn].users = Append(@, row),
                            ![conn].userSeq = IF @ < row.id THEN row.id ELSE @]
        /\ writer' = IF conn = "embedded" THEN 0 ELSE writer
        /\ Finish(p, Outcome(conn, 201, "registered", row.id, FALSE, db[conn]),
                  call[p].name \in registered)
        /\ registered' = registered \cup {call[p].name}
        /\ UNCHANGED <<config, running, starts, now, created, sample>>

NextConc ==
    \/ Start
    \/ \E p \in Procs : RegisterBegin(p)
    \/ \E p \in Procs : RegisterCheck(p)
    \/ \E p \in Procs : RegisterInsert(p)
    \/ \E p \in Procs : RegisterCommit(p)

SpecConc == Init /\ [][NextConc]_vars

\* C9: under every interleaving of concurrent register calls, no store ever
\* holds two users rows with the same name, and at most one call for a name
\* answers 201.
C9_NoDuplicateNames ==
    /\ \A s \in Stores :
          /\ \A i, j \in 1..Len(db[s].users) :
                i # j => db[s].users[i].name # db[s].users[j].name
          /\ \A q \in Pending(s) :
                /\ call[q].name \notin {db[s].users[i].name : i \in 1..Len(db[s].users)}
                /\ \A r \in Pending(s) \ {q} : call[r].name # call[q].name
    /\ (resp.op = "register" /\ resp.status = 201) => ~resp.known

\* Two calls for one name are both past the existence check, one of them
\* holding its uncommitted row.
C9_Witness ==
    \E p, q \in Procs :
        /\ p # q
        /\ pc[p] = "commit" /\ pc[q] = "insert"
        /\ call[p].name = call[q].name
        /\ call[p].conn = call[q].conn

====
